---- MODULE Spec2Model ----
(***************************************************************************)
(* icinga2-procmgr: a fleet of workers consumes process spawn requests     *)
(* from the Redis stream icinga2:process:spawn through the consumer group  *)
(* icinga2-procmgr, runs each request as a child process and publishes the *)
(* result on icinga2:process:exit together with the XACK of the request.   *)
(*                                                                         *)
(* State: the Redis server (both streams, the group's last-delivered id    *)
(* and pending list), every worker process (main, readLoop, the globals    *)
(* shuttingDown and critical) and one handleRequest task per delivered     *)
(* message, with its child process, reaper, timer and output buffer.       *)
(***************************************************************************)
EXTENDS Integers, Sequences, FiniteSets, TLC

\* Bound: number of requests clients append to icinga2:process:spawn while
\* one worker runs (PairSpec); the requests of a run are 1..MaxMsgs.
MaxMsgs == 2

\* Bound: number of requests clients append while the whole fleet runs (Spec).
MaxFleetMsgs == 1

\* The fleet: one entry per worker process (a restart is a new process with
\* a new UUID, hence another member).
Workers == {"w1", "w2"}

\* XReadGroupArgs.Count
Count == 100

SIGKILL == 9
SIGTERM == 15
SIGCONT == 18
SIGSTOP == SIGCONT + 1
FailureCode == 128
NoPid == 0 - 1

Msgs == 1..MaxMsgs

(***************************************************************************)
(* Stream message fields.  message.Values maps a field name to a value; a  *)
(* missing key reads as nil.                                               *)
(***************************************************************************)
Absent == [kind |-> "absent"]
NotAString == [kind |-> "int"]
Str(s) == [kind |-> "string", val |-> s]

\* v.(string): the second result of the type assertion
IsString(v) == v.kind = "string"

\* rawId, ok := message.Values["id"].(string): the zero value unless ok
rawId(values) == IF IsString(values.id) THEN values.id.val ELSE 0

\* The request id a client puts into entry m (opaque, unique per request).
RequestId(m) == 100 + m

GoodCommand == "[\"/bin/check\"]"
GoodEnv == "[\"K=V\"]"
GoodTimeout == "1.5"

\* The requests a client may append as entry m of the input stream.
Payloads(m) ==
    LET ok == [id |-> Str(RequestId(m)), command |-> Str(GoodCommand),
               env |-> Str(GoodEnv), timeout |-> Str(GoodTimeout)]
    IN  { ok,
          [ok EXCEPT !.id = Absent],
          [ok EXCEPT !.id = NotAString, !.command = Str("not-json")],
          [ok EXCEPT !.command = Absent],
          [ok EXCEPT !.command = Str("not-json")],
          [ok EXCEPT !.command = Str("[]")],
          [ok EXCEPT !.env = Absent],
          [ok EXCEPT !.env = Str("not-json")],
          [ok EXCEPT !.timeout = Absent],
          [ok EXCEPT !.timeout = Str("soon")] }

\* json.Unmarshal([]byte(s), &[]string), on the strings above
jsonUnmarshal(s) ==
    CASE s = "[]" -> [err |-> "", val |-> << >>]
      [] s = "null" -> [err |-> "", val |-> << >>]
      [] s = GoodCommand -> [err |-> "", val |-> <<"/bin/check">>]
      [] s = GoodEnv -> [err |-> "", val |-> <<"K=V">>]
      [] OTHER -> [err |-> "invalid character", val |-> << >>]

\* strconv.ParseFloat(s, 64), on the strings above
ParseFloat(s) ==
    CASE s = GoodTimeout -> [err |-> "", val |-> 15]
      [] s = "0" -> [err |-> "", val |-> 0]
      [] OTHER -> [err |-> "invalid syntax", val |-> 0]

(***************************************************************************)
(* handleRequest, lines 79-130: the checks before anything is spawned.     *)
(* kind "noid": ack only; "reject": sendFailure(reason); "ok": run it.     *)
(***************************************************************************)
ParseRequest(values) ==
    IF ~IsString(values.id) THEN [kind |-> "noid", reason |-> ""]
    ELSE IF ~IsString(values.command)
        THEN [kind |-> "reject", reason |-> "bad command spec"]
    ELSE IF jsonUnmarshal(values.command.val).err # ""
        THEN [kind |-> "reject", reason |-> "bad command spec: json"]
    ELSE IF Len(jsonUnmarshal(values.command.val).val) < 1
        THEN [kind |-> "reject", reason |-> "bad command spec"]
    ELSE IF ~IsString(values.env)
        THEN [kind |-> "reject", reason |-> "bad env spec"]
    ELSE IF jsonUnmarshal(values.env.val).err # ""
        THEN [kind |-> "reject", reason |-> "bad env spec: json"]
    ELSE IF ~IsString(values.timeout)
        THEN [kind |-> "reject", reason |-> "bad timeout spec"]
    ELSE IF ParseFloat(values.timeout.val).err # ""
        THEN [kind |-> "reject", reason |-> "bad timeout spec: float"]
    ELSE [kind |-> "ok", reason |-> ""]

(***************************************************************************)
(* Wait statuses and the error values the reaper delivers.                 *)
(***************************************************************************)
NoStatus == [how |-> "none", n |-> 0]
Exited(c) == [how |-> "exited", n |-> c]
Signaled(s) == [how |-> "signaled", n |-> s]
Stopped(s) == [how |-> "stopped", n |-> s]
Continued == [how |-> "continued", n |-> 0]
\* a wait status that is none of Exited, Signaled, Stopped, Continued
UnknownStatus == [how |-> "unknown", n |-> 0]

\* How a child may end on its own.
NaturalStatuses == {Exited(0), Exited(3)}

NoError == [kind |-> "none", ws |-> NoStatus]
NilError == [kind |-> "nil", ws |-> Exited(0)]
ExitError(ws) == [kind |-> "exit", ws |-> ws]
\* an error of cmd.Wait that is no *exec.ExitError (copying the output failed)
OtherError(ws) == [kind |-> "other", ws |-> ws]

\* cmd.Wait's results for a child that ended with wait status ws: an
\* *exec.ExitError unless it exited with 0; then nil, or the error met while
\* copying its output
WaitResults(ws) ==
    IF ws = Exited(0) THEN {NilError, OtherError(ws)} ELSE {ExitError(ws)}

\* The pid the OS gives the child of request m, unless it gives it a pid
\* that is free again.
Pid(m) == 1000 + m

\* How the process of a child ends.  The reaper is in cmd.Wait(), which
\* first waits for the process (wait4) and then for the end of its output:
\* the ended child is collected at once and its pid is free from then on.
\* "waited": the child is collected and its output is at EOF, cmd.Wait() can
\* return; "held": the child is collected and a descendant that left its
\* process group holds the write end of the output pipe, cmd.Wait() does not
\* return before that descendant is gone.
ChildEnds == {"waited", "held"}

\* Outcomes of syscall.Kill(-pid, SIGKILL), whose result lines 171 and 175
\* discard.  "refused": the call returns an error and no process is
\* signalled (EPERM: the group's processes run for another user; ESRCH: no
\* such group); otherwise every process of the group is killed, and the
\* child ends in one of the two ways.
KillOutcomes == {"refused"} \cup ChildEnds

TimeoutNote == "<Timeout exceeded.>"
\* The signal names of package syscall (linux), by signal number.
SignalNames ==
    <<"hangup", "interrupt", "quit", "illegal instruction",
      "trace/breakpoint trap", "aborted", "bus error",
      "floating point exception", "killed", "user defined signal 1",
      "segmentation fault", "user defined signal 2", "broken pipe",
      "alarm clock", "terminated", "stack fault", "child exited",
      "continued", "stopped (signal)", "stopped", "stopped (tty input)",
      "stopped (tty output)", "urgent I/O condition",
      "CPU time limit exceeded", "file size limit exceeded",
      "virtual timer expired", "profiling timer expired", "window changed",
      "I/O possible", "power failure", "bad system call">>

\* syscall.Signal.String(): the name, or "signal " and the number
SignalName(s) ==
    IF s \in 1..Len(SignalNames) THEN SignalNames[s]
    ELSE "signal " \o ToString(s)
SignalNote(s) == <<"<Terminated by signal ", SignalName(s), ".>">>
ErrorNote(e) == <<"<", e, ">">>

\* time.Now(): the n-th reading of the clock within one request
TimeNow(n) == n

(***************************************************************************)
(* The Redis server.                                                       *)
(***************************************************************************)
NoConsumer == "-"

\* Outcomes of a call to the server.  "ok": executed and answered; "failed":
\* an error, nothing executed; "lost": executed, and the call returns an
\* error all the same (the reply is lost or comes after ReadTimeout).
CallOutcomes == {"ok", "failed", "lost"}
\* Outcomes of the EXEC of a transaction: those, and "xaddError": the
\* transaction is executed and its XADD fails (WRONGTYPE); the server goes on
\* with the XACK, nothing is rolled back, the call returns the XADD's error.
TxOutcomes == CallOutcomes \cup {"xaddError"}
\* the server executed the call as it was sent
Applied(outcome) == outcome \in {"ok", "lost"}
\* the call returns an error to the goroutine
Errored(outcome) == outcome # "ok"

VARIABLES
    spawnStream,    \* icinga2:process:spawn, entry ids are 1..Len
    exitStream,     \* icinga2:process:exit
    groupExists,    \* the group icinga2-procmgr was created
    lastDelivered,  \* the group's last-delivered id
    pel,            \* the group's pending list: entry -> consumer
    acked,          \* entries removed from the pending list by XACK
    main,           \* per worker: where func main is
    loop,           \* per worker: where readLoop is
    shuttingDown,   \* per worker: the channel shuttingDown is closed
    critical,       \* per worker: the RWMutex critical
    task,           \* per entry: the handleRequest goroutine it was given to
    delivered,      \* per entry: how often XReadGroup handed it to a worker
    spawned,        \* per entry: how many children cmd.Start created for it
    environ,        \* the workers' environment, as os.Environ() returns it
    ourEnv,         \* per worker: m.ourEnv, the once, the slice vars and its
                    \* backing array
    envTask         \* per request: handleRequest in lines 132-148, its env,
                    \* cmd.Env and what the child was handed

dispatchVars ==
    <<spawnStream, exitStream, groupExists, lastDelivered, pel, acked,
      main, loop, shuttingDown, critical, task, delivered, spawned>>
vars == <<spawnStream, exitStream, groupExists, lastDelivered, pel, acked,
          main, loop, shuttingDown, critical, task, delivered, spawned,
          environ, ourEnv, envTask>>

NoTask ==
    [w |-> NoConsumer, pc |-> "none", reason |-> "", gate |-> FALSE,
     child |-> "none", pid |-> NoPid, status |-> NoStatus,
     waitErr |-> NoError, timer |-> "none", out |-> << >>,
     \* history, not program state: every SIGKILL sent, with the state the
     \* child was in and whether the signal ended it; whether the timer's
     \* duration passed while the child still ran (kept while a response
     \* may follow); whether the goroutine's Redis call returns an error;
     \* whether it published its response after shuttingDown was closed
     kills |-> << >>, expired |-> FALSE, redisErr |-> FALSE,
     underDrain |-> FALSE]

\* The worker process runs: main has not returned, log.Fatal was not called.
Alive(w) == main[w] \in {"config", "waiting", "closed", "locking"}

\* What is left of a goroutine when its function returns: its locals are
\* gone; the child is the operating system's.
Gone(t, pc) ==
    [t EXCEPT !.pc = pc, !.reason = "", !.gate = FALSE, !.waitErr = NoError,
              !.timer = "none", !.out = << >>,
              !.expired = FALSE,
              !.status = IF t.child = "reaped" THEN NoStatus ELSE @]

\* The process of worker w ends: every goroutine of it ends where it is, and
\* of its request only the child is left.  (underDrain is kept no longer than
\* the process whose shuttingDown it speaks of.)
ProcessExit(w) ==
    [m \in Msgs |->
        IF task[m].w = w /\ task[m].pc \notin {"none", "done"}
        THEN [Gone(task[m], "killed") EXCEPT !.kills = << >>,
                                             !.status = NoStatus,
                                             !.underDrain = FALSE]
        ELSE IF task[m].w = w
        THEN [task[m] EXCEPT !.underDrain = FALSE]
        ELSE task[m]]

(***************************************************************************)
(* The worker's environment and the environment of a child, lines 132-148. *)
(* A Go slice is a backing array, a length and a capacity; append writes   *)
(* into the backing array of its first argument when the capacity          *)
(* suffices and into a new array otherwise.                                *)
(***************************************************************************)
\* Bound: number of requests handled concurrently in EnvSpec.
MaxEnvTasks == 2
EnvTasks == 1..MaxEnvTasks

\* the zero value of an array slot no slice has reached yet
NoEntry == ""
WorkerVars == <<"PATH=/bin">>

\* os.Environ(): the variables in a slice whose capacity is the number of
\* entries of the process environment, the blanked ones (a key given twice,
\* a variable unset) included.
Environs ==
    {[vars |-> WorkerVars, cap |-> Len(WorkerVars) + spare] : spare \in {0, 1}}

\* the one entry request t may bring in its env
RequestEntry(t) == IF t = 1 THEN "K=V" ELSE "K=" \o ToString(t)
\* the env of request t: none, one entry of its own, or a variable the
\* worker has as well
RequestEnvs(t) == {<< >>, <<RequestEntry(t)>>, <<"PATH=/opt">>}

\* kv[:strings.Index(kv, "=")], on the entries above; an entry without "="
\* has no key
EnvKey(kv) ==
    IF kv \in {"PATH=/bin", "PATH=/opt"} THEN "PATH"
    ELSE IF kv = NoEntry THEN NoEntry
    ELSE "K"

\* dedupEnv of os/exec, which cmd.Start() applies to cmd.Env: of the entries
\* with one key the last stays, at the place of the first; an entry without
\* "=" stays as it is.
RECURSIVE dedupEnv(_)
dedupEnv(env) ==
    IF env = << >> THEN << >>
    ELSE LET out == dedupEnv(SubSeq(env, 1, Len(env) - 1))
             kv == env[Len(env)]
             dup == {i \in 1..Len(out) :
                        EnvKey(out[i]) # NoEntry /\ EnvKey(out[i]) = EnvKey(kv)}
         IN  IF EnvKey(kv) = NoEntry \/ dup = {} THEN Append(out, kv)
             ELSE [i \in 1..Len(out) |-> IF i \in dup THEN kv ELSE out[i]]

NoSlice == [array |-> "nil", len |-> 0, own |-> << >>]
NoEnvTask ==
    [pc |-> "none", w |-> NoConsumer, env |-> << >>, cmdEnv |-> NoSlice,
     childEnv |-> << >>]
\* writes counts the assignments to m.ourEnv.vars (history)
NoOurEnv ==
    [once |-> FALSE, writes |-> 0, len |-> 0, cap |-> 0, array |-> << >>]

\* The process of worker w ends: of the requests its goroutines were busy
\* with nothing is left, and m.ourEnv is gone with the process.
ProcessExitEnv(w) ==
    [t \in EnvTasks |->
        IF envTask[t].w = w /\ envTask[t].pc # "done" THEN NoEnvTask
        ELSE envTask[t]]

DispatchInit ==
    /\ spawnStream = << >>
    /\ exitStream = << >>
    /\ groupExists = FALSE
    /\ lastDelivered = 0
    /\ pel = [m \in Msgs |-> NoConsumer]
    /\ acked = {}
    /\ main = [w \in Workers |-> "config"]
    /\ loop = [w \in Workers |-> "none"]
    /\ shuttingDown = [w \in Workers |-> FALSE]
    /\ critical = [w \in Workers |-> [readers |-> 0, writer |-> FALSE]]
    /\ task = [m \in Msgs |-> NoTask]
    /\ delivered = [m \in Msgs |-> 0]
    /\ spawned = [m \in Msgs |-> 0]

Init ==
    /\ DispatchInit
    /\ environ = [vars |-> WorkerVars, cap |-> Len(WorkerVars)]
    /\ ourEnv = [w \in Workers |-> NoOurEnv]
    /\ envTask = [t \in EnvTasks |-> NoEnvTask]

(***************************************************************************)
(* Redis commands.                                                         *)
(***************************************************************************)
\* XACK icinga2:process:spawn icinga2-procmgr m, on <<pel, acked>>
XAck(r, m) ==
    IF r.pel[m] = NoConsumer THEN r
    ELSE [r EXCEPT !.pel[m] = NoConsumer, !.acked = @ \cup {m}]

\* XADD icinga2:process:exit * ...
XAdd(r, resp) == [r EXCEPT !.exit = Append(@, resp)]

Redis == [exit |-> exitStream, pel |-> pel, acked |-> acked]

\* tx.Exec() of sendResponse's transaction, MULTI XADD XACK EXEC: both
\* commands or none of them, unless the XADD fails as the server executes it.
TxExec(r, resp, m, outcome) ==
    IF Applied(outcome) THEN XAck(XAdd(r, resp), m)
    ELSE IF outcome = "xaddError" THEN XAck(r, m)
    ELSE r

\* XREADGROUP ... STREAMS icinga2:process:spawn 0 : the consumer's own
\* pending entries, again
ReadBatchPending(w) ==
    {m \in 1..Len(spawnStream) : m > lastDelivered \/ pel[m] = w}

\* XREADGROUP GROUP icinga2-procmgr w COUNT 100 STREAMS icinga2:process:spawn > :
\* the entries never delivered to any consumer, at most Count of them
ReadBatch(w) ==
    {m \in 1..Len(spawnStream) :
        m > lastDelivered /\ m <= lastDelivered + Count}

(***************************************************************************)
(* Clients of the fleet.                                                   *)
(***************************************************************************)
\* A client appends a request to icinga2:process:spawn, the stream holding
\* fewer than limit requests.
ClientXAdd(limit) ==
    /\ Len(spawnStream) < limit
    /\ \E p \in Payloads(Len(spawnStream) + 1) :
           spawnStream' = Append(spawnStream, p)
    /\ UNCHANGED <<environ, ourEnv, envTask,
                   exitStream, groupExists, lastDelivered, pel, acked,
                   main, loop, shuttingDown, critical, task, delivered, spawned>>

(***************************************************************************)
(* readLoop                                                                *)
(***************************************************************************)
\* Lines 29-51: uuid.NewRandom, then XGroupCreateMkStream.  how = "uuid":
\* no UUID could be generated; "created": the group is new; "busygroup": it
\* exists already; "error", "errorCreated": any other error, the group
\* left as it was or created before the reply was lost.
readLoopInit(w) ==
    /\ Alive(w)
    /\ loop[w] = "init"
    /\ \E how \in {"uuid", "created", "busygroup", "error", "errorCreated"} :
        /\ how \in {"created", "errorCreated"} => ~groupExists
        /\ how = "busygroup" => groupExists
        /\ groupExists' =
               IF how \in {"created", "errorCreated"} THEN TRUE ELSE groupExists
        /\ loop' = [loop EXCEPT ![w] =
               IF how \in {"created", "busygroup"} THEN "reading"
               ELSE "fatal"]
        /\ main' = [main EXCEPT ![w] =
               IF how \in {"created", "busygroup"} THEN @ ELSE "fatal"]
        /\ shuttingDown' = [shuttingDown EXCEPT ![w] =
               IF how \in {"created", "busygroup"} THEN @ ELSE FALSE]
        /\ critical' = [critical EXCEPT ![w] =
               IF how \in {"created", "busygroup"} THEN @
               ELSE [readers |-> 0, writer |-> FALSE]]
    /\ UNCHANGED <<environ, ourEnv, envTask,
                   spawnStream, exitStream, lastDelivered, pel, acked,
                   task, delivered, spawned>>

\* go m.handleRequest(message), lines 79-130: only the message is read.  A
\* request that passes the checks stands before line 132 ("env": its
\* position in lines 132-138 is envTask's).
NewTask(w, values) ==
    LET r == ParseRequest(values)
    IN  [NoTask EXCEPT !.w = w, !.reason = r.reason,
                       !.pc = IF r.kind = "noid" THEN "ack"
                              ELSE IF r.kind = "reject" THEN "sendFailure"
                              ELSE "env"]

\* The same goroutine's env, line 114-118, as it reaches line 132.
NewEnvTask(w, values) ==
    IF ParseRequest(values).kind = "ok"
    THEN [NoEnvTask EXCEPT !.pc = "once", !.w = w,
                           !.env = jsonUnmarshal(values.env.val).val]
    ELSE NoEnvTask

\* The server's part of XREADGROUP ... > : the batch is the consumer's, in
\* the pending list and behind the group's last-delivered id.
Deliver(w, batch) ==
    [lastDelivered |->
         IF \E m \in batch : m > lastDelivered
         THEN CHOOSE m \in batch : \A o \in batch : o <= m
         ELSE lastDelivered,
     pel |-> [m \in Msgs |-> IF m \in batch THEN w ELSE pel[m]],
     delivered |-> [m \in Msgs |->
                       IF m \in batch THEN delivered[m] + 1 ELSE delivered[m]]]

\* Lines 53-75, XReadGroup answered: every message of the batch goes to a
\* goroutine of its own.
readLoopRead(w) ==
    /\ Alive(w)
    /\ loop[w] = "reading"
    /\ ReadBatch(w) # {}
    /\ LET batch == ReadBatch(w)
           d == Deliver(w, batch)
       IN  /\ lastDelivered' = d.lastDelivered
           /\ pel' = d.pel
           /\ delivered' = d.delivered
           /\ task' = [m \in Msgs |->
                          IF m \in batch THEN NewTask(w, spawnStream[m])
                          ELSE task[m]]
           /\ envTask' = [t \in EnvTasks |->
                          IF t \in batch THEN NewEnvTask(w, spawnStream[t])
                          ELSE envTask[t]]
    /\ UNCHANGED <<environ, ourEnv,
                   spawnStream, exitStream, groupExists, acked,
                   main, loop, shuttingDown, critical, spawned>>

\* Lines 61-68, XReadGroup returned an error: log.Fatal ends the process at
\* once, whatever its goroutines and their children are doing.  The server
\* did nothing, or it delivered a batch and the reply never reached the
\* worker.
readLoopFatal(w) ==
    /\ Alive(w)
    /\ loop[w] = "reading"
    /\ \E outcome \in CallOutcomes \ {"ok"} :
        LET batch == IF Applied(outcome) THEN ReadBatch(w) ELSE {}
            d == Deliver(w, batch)
        IN  /\ Applied(outcome) => batch # {}
            /\ lastDelivered' = d.lastDelivered
            /\ pel' = d.pel
            /\ delivered' = d.delivered
    /\ loop' = [loop EXCEPT ![w] = "fatal"]
    /\ main' = [main EXCEPT ![w] = "fatal"]
    /\ shuttingDown' = [shuttingDown EXCEPT ![w] = FALSE]
    /\ critical' = [critical EXCEPT ![w] = [readers |-> 0, writer |-> FALSE]]
    /\ task' = ProcessExit(w)
    /\ envTask' = ProcessExitEnv(w)
    /\ ourEnv' = [ourEnv EXCEPT ![w] = NoOurEnv]
    /\ UNCHANGED <<environ, spawnStream, exitStream, groupExists, acked,
                   spawned>>

(***************************************************************************)
(* main.  main[w] is its position: "config" lines 18-41, "waiting" line    *)
(* 70, "closed" line 72 done, "locking" in line 73; "exited": it returned; *)
(* "fatal": log.Fatal ended the process.  loop[w] is "none" until line 67. *)
(***************************************************************************)
\* Lines 18-68: without a config file (line 27), with a config that does not
\* load (line 33) or logging that cannot be set up (line 39) log.Fatal ends
\* the process; otherwise the signals are subscribed to and readLoop is
\* started.
mainConfig(w) ==
    /\ main[w] = "config"
    /\ \E ok \in BOOLEAN :
        /\ main' = [main EXCEPT ![w] = IF ok THEN "waiting" ELSE "fatal"]
        /\ loop' = [loop EXCEPT ![w] = IF ok THEN "init" ELSE @]
    /\ UNCHANGED <<environ, ourEnv, envTask,
                   spawnStream, exitStream, groupExists, lastDelivered, pel,
                   acked, shuttingDown, critical, task, delivered, spawned>>

\* Lines 70-72: SIGINT or SIGTERM arrives, close(shuttingDown).
mainSignal(w) ==
    /\ Alive(w)
    /\ main[w] = "waiting"
    /\ main' = [main EXCEPT ![w] = "closed"]
    /\ shuttingDown' = [shuttingDown EXCEPT ![w] = TRUE]
    /\ UNCHANGED <<environ, ourEnv, envTask,
                   spawnStream, exitStream, groupExists, lastDelivered, pel,
                   acked, loop, critical, task, delivered, spawned>>

\* Line 73, critical.Lock() is called: from now on RLock blocks.
mainLock(w) ==
    /\ Alive(w)
    /\ main[w] = "closed"
    /\ main' = [main EXCEPT ![w] = "locking"]
    /\ critical' = [critical EXCEPT ![w].writer = TRUE]
    /\ UNCHANGED <<environ, ourEnv, envTask,
                   spawnStream, exitStream, groupExists, lastDelivered, pel,
                   acked, loop, shuttingDown, task, delivered, spawned>>

\* Lines 73-74, critical.Lock() returns once no reader is left; main returns
\* and the process ends.
mainReturn(w) ==
    /\ Alive(w)
    /\ main[w] = "locking"
    /\ critical[w].readers = 0
    /\ main' = [main EXCEPT ![w] = "exited"]
    /\ loop' = [loop EXCEPT ![w] = "exited"]
    /\ shuttingDown' = [shuttingDown EXCEPT ![w] = FALSE]
    /\ critical' = [critical EXCEPT ![w] = [readers |-> 0, writer |-> FALSE]]
    /\ task' = ProcessExit(w)
    /\ envTask' = ProcessExitEnv(w)
    /\ ourEnv' = [ourEnv EXCEPT ![w] = NoOurEnv]
    /\ UNCHANGED <<environ,
                   spawnStream, exitStream, groupExists, lastDelivered, pel,
                   acked, delivered, spawned>>

(***************************************************************************)
(* handleRequest.  task[m].pc is the goroutine's position:                 *)
(*   ack         line 85, before the standalone XACK                       *)
(*   sendFailure lines 93-128 and 211, before sendFailure's transaction    *)
(*   env         lines 132-138, see envTask                                *)
(*   rlock       line 143, before critical.RLock()                         *)
(*   start       line 148, before cmd.Start()                              *)
(*   select      line 163                                                  *)
(*   drain       line 176, before <-waitErr                                *)
(*   reply       lines 245 and 255, the call is with the server, the       *)
(*               goroutine waits for the reply                             *)
(*   done        returned                                                  *)
(***************************************************************************)
Running(m) == task[m].pc \notin {"none", "done"} /\ Alive(task[m].w)

\* return, with the deferred timer.Stop() and critical.RUnlock()
Return(t) == Gone(t, "done")

\* Line 144, defer critical.RUnlock(): runs at every return after line 143.
RUnlock(t) ==
    IF t.gate THEN [critical EXCEPT ![t.w].readers = @ - 1] ELSE critical

\* The running children whose process group has the id pid.  (Setsid makes
\* each child the leader of a group of its own, whose id is its pid.)
ProcessGroup(pid) ==
    {o \in Msgs : task[o].pid = pid /\ task[o].child = "running"}

\* The pids that are free again: those of the children the wait4 of
\* cmd.Wait() has collected, whether cmd.Wait() has returned ("reaped") or
\* still waits for the output, unless a running child has the pid already.
FreePids ==
    {task[o].pid : o \in {n \in Msgs : task[n].child \in
                                ChildEnds \cup {"reaped"}}}
        \ {task[o].pid : o \in {n \in Msgs : task[n].child = "running"}}

\* syscall.Kill(-cmd.Process.Pid, syscall.SIGKILL) by the task of request m,
\* the result discarded: the signal goes to whatever process group has that
\* id now.  Unless the call is refused the running processes of the group
\* die of it; a child that has ended already is not changed by it.
Kill(m, why, outcome) ==
    LET group == IF outcome = "refused" THEN {}
                 ELSE ProcessGroup(task[m].pid)
    IN  [o \in Msgs |->
            LET t == IF o \in group
                     THEN [task[o] EXCEPT !.child = outcome,
                                          !.status = Signaled(SIGKILL)]
                     ELSE task[o]
            IN  IF o = m
                THEN [t EXCEPT !.kills =
                         Append(@, [why |-> why, child |-> task[m].child,
                                    ended |-> m \in group])]
                ELSE t]

Response(id, pid, code, output, start, end) ==
    [id |-> id, pid |-> pid, code |-> code, output |-> output,
     exec_start |-> start, exec_end |-> end]

\* A sendFailure that reads the clock once for exec_start and once more for
\* exec_end.
FailureResponseTwoReadings(w, id, reason) ==
    Response(id, NoPid, FailureCode,
             <<"[Icinga 2 process manager ", w, "] ", reason>>,
             TimeNow(1), TimeNow(2))

\* Lines 215-225: the response sendFailure hands to sendResponse.
FailureResponse(w, id, reason) ==
    Response(id, NoPid, FailureCode,
             <<"[Icinga 2 process manager ", w, "] ", reason>>,
             TimeNow(1), TimeNow(1))

\* A classification that takes the signal's number for the exit code.
ExitResponseBareSignal(m, id, errWt, out) ==
    LET ws == errWt.ws
        pid == task[m].pid
    IN  IF errWt.kind = "exit" /\ ws.how \in {"signaled", "stopped"}
            THEN Response(id, pid, ws.n, out \o SignalNote(ws.n),
                          TimeNow(1), TimeNow(2))
        ELSE IF errWt.kind = "exit" /\ ws.how = "continued"
            THEN Response(id, pid, SIGCONT, out \o SignalNote(SIGCONT),
                          TimeNow(1), TimeNow(2))
        ELSE IF errWt.kind = "exit" /\ ws.how = "exited"
            THEN Response(id, pid, ws.n, out, TimeNow(1), TimeNow(2))
        ELSE IF errWt.kind = "nil"
            THEN Response(id, pid, 0, out, TimeNow(1), TimeNow(2))
        ELSE Response(id, NoPid, 128, out, TimeNow(1), TimeNow(2))

\* Lines 183-209: the response for a child the reaper delivered errWt for.
\* pid is cmd.Process.Pid, start and end are the clock readings of lines
\* 149 and 165.
ExitResponse(m, id, errWt, out) ==
    LET ws == errWt.ws
        pid == task[m].pid
        start == TimeNow(1)
        end == TimeNow(2)
    IN  IF errWt.kind = "nil"
            THEN Response(id, pid, 0, out, start, end)
        ELSE IF errWt.kind = "exit"
            THEN IF ws.how = "exited"
                     THEN Response(id, pid, ws.n, out, start, end)
                 ELSE IF ws.how = "signaled"
                     THEN Response(id, pid, 128 + ws.n,
                                   out \o SignalNote(ws.n), start, end)
                 ELSE IF ws.how = "stopped"
                     THEN Response(id, pid, 128 + ws.n,
                                   out \o SignalNote(ws.n), start, end)
                 ELSE IF ws.how = "continued"
                     THEN Response(id, pid, 128 + SIGCONT,
                                   out \o SignalNote(SIGCONT), start, end)
                 ELSE Response(id, pid, 128,
                               out \o ErrorNote("exit error"), start, end)
        ELSE Response(id, NoPid, 128, out \o ErrorNote("wait error"),
                      start, end)

\* Lines 227-252: sendResponse.  The state of the server after tx.Exec().
sendResponse(m, resp, outcome) == TxExec(Redis, resp, m, outcome)

\* The goroutine in its last call to the server, lines 245 and 255: of its
\* locals nothing is read any more; the reader hold lasts until it returns.
AwaitReply(t, outcome) ==
    [Gone(t, "reply") EXCEPT !.gate = t.gate, !.redisErr = Errored(outcome)]

\* A handleRequest that treats a message without a string id like any other
\* rejected request: a failure response with the empty id, and the XACK with it.
hrAckWithResponse(m) ==
    /\ Running(m)
    /\ task[m].pc = "ack"
    /\ \E outcome \in TxOutcomes :
        LET r == sendResponse(m,
                     FailureResponse(task[m].w, rawId(spawnStream[m]), "id"),
                     outcome)
        IN  /\ pel' = r.pel
            /\ acked' = r.acked
            /\ exitStream' = r.exit
            /\ task' = [task EXCEPT ![m] = AwaitReply(@, outcome)]
    /\ UNCHANGED <<environ, ourEnv, envTask,
                   spawnStream, groupExists, lastDelivered,
                   main, loop, shuttingDown, critical, delivered, spawned>>

\* Line 85 with ackMsg, line 255: the XACK sent on its own is with the server.
hrAck(m) ==
    /\ Running(m)
    /\ task[m].pc = "ack"
    /\ \E outcome \in CallOutcomes :
        LET r == IF Applied(outcome) THEN XAck(Redis, m) ELSE Redis
        IN  /\ pel' = r.pel
            /\ acked' = r.acked
            /\ exitStream' = r.exit
            /\ task' = [task EXCEPT ![m] = AwaitReply(@, outcome)]
    /\ UNCHANGED <<environ, ourEnv, envTask,
                   spawnStream, groupExists, lastDelivered,
                   main, loop, shuttingDown, critical, delivered, spawned>>

\* A handleRequest whose rejections lack their return: after sendFailure the
\* goroutine goes on at line 143 with the rejected request.
hrSendFailureNoReturn(m) ==
    /\ Running(m)
    /\ task[m].pc = "sendFailure"
    /\ \E outcome \in TxOutcomes :
        LET t == task[m]
            r == sendResponse(m,
                     FailureResponse(t.w, rawId(spawnStream[m]), t.reason),
                     outcome)
        IN  /\ pel' = r.pel
            /\ acked' = r.acked
            /\ exitStream' = r.exit
            /\ task' = [task EXCEPT ![m] =
                   IF t.gate
                   THEN AwaitReply(@, outcome)
                   ELSE [@ EXCEPT !.pc = "rlock", !.reason = ""]]
    /\ UNCHANGED <<environ, ourEnv, envTask,
                   spawnStream, groupExists, lastDelivered,
                   main, loop, shuttingDown, critical, delivered, spawned>>

\* sendFailure (lines 215-225) for a request rejected in lines 91-130 or
\* whose cmd.Start failed (line 211): its transaction is with the server.
hrSendFailure(m) ==
    /\ Running(m)
    /\ task[m].pc = "sendFailure"
    /\ \E outcome \in TxOutcomes :
        LET t == task[m]
            r == sendResponse(m,
                     FailureResponse(t.w, rawId(spawnStream[m]), t.reason),
                     outcome)
        IN  /\ pel' = r.pel
            /\ acked' = r.acked
            /\ exitStream' = r.exit
            /\ task' = [task EXCEPT ![m] =
                   [AwaitReply(@, outcome) EXCEPT
                       !.underDrain = Applied(outcome) /\ shuttingDown[t.w]]]
    /\ UNCHANGED <<environ, ourEnv, envTask,
                   spawnStream, groupExists, lastDelivered,
                   main, loop, shuttingDown, critical, delivered, spawned>>

\* Lines 245-251 or 255-259, then the return of lines 86, 94-129 or 213: the
\* call returns with the reply or with an error, which is logged; the
\* deferred calls run.
hrReturn(m) ==
    /\ Running(m)
    /\ task[m].pc = "reply"
    /\ task' = [task EXCEPT ![m] = Return(@)]
    /\ critical' = RUnlock(task[m])
    /\ UNCHANGED <<environ, ourEnv, envTask,
                   spawnStream, exitStream, groupExists, lastDelivered, pel,
                   acked, main, loop, shuttingDown, delivered, spawned>>

\* Lines 262-264: m.ourEnv.vars = os.Environ()
initEnv(w) ==
    [once |-> TRUE,
     writes |-> ourEnv[w].writes + 1,
     len |-> Len(environ.vars),
     cap |-> environ.cap,
     array |-> environ.vars
               \o [i \in 1..(environ.cap - Len(environ.vars)) |-> NoEntry]]

\* Line 132: sync.Once runs initEnv for the first caller only.
hrOnce(t) ==
    /\ envTask[t].pc = "once"
    /\ Alive(envTask[t].w)
    /\ ourEnv' = [ourEnv EXCEPT ![envTask[t].w] =
           IF @.once THEN @ ELSE initEnv(envTask[t].w)]
    /\ envTask' = [envTask EXCEPT ![t].pc = "append"]
    /\ UNCHANGED environ
    /\ UNCHANGED dispatchVars

\* Line 138: cmd.Env = append(m.ourEnv.vars, env...).  No lock is held: two
\* tasks that append in place write the same slots of the array, the later
\* write stays.  The goroutine goes on to line 143.
hrAppendEnv(t) ==
    /\ envTask[t].pc = "append"
    /\ Alive(envTask[t].w)
    /\ LET w == envTask[t].w
           env == envTask[t].env
           n == Len(env)
           inPlace == ourEnv[w].len + n <= ourEnv[w].cap
       IN  /\ ourEnv' =
                  IF inPlace
                  THEN [ourEnv EXCEPT ![w].array =
                           [i \in 1..ourEnv[w].cap |->
                               IF i > ourEnv[w].len /\ i <= ourEnv[w].len + n
                               THEN env[i - ourEnv[w].len]
                               ELSE ourEnv[w].array[i]]]
                  ELSE ourEnv
           /\ envTask' = [envTask EXCEPT
                  ![t].pc = "start",
                  ![t].cmdEnv =
                      IF inPlace
                      THEN [array |-> "ourEnv", len |-> ourEnv[w].len + n,
                            own |-> << >>]
                      ELSE [array |-> "own", len |-> ourEnv[w].len + n,
                            own |-> SubSeq(ourEnv[w].array, 1, ourEnv[w].len)
                                    \o env]]
    /\ task' = [m \in Msgs |->
           IF m = t /\ task[m].pc = "env" THEN [task[m] EXCEPT !.pc = "rlock"]
           ELSE task[m]]
    /\ UNCHANGED <<environ, spawnStream, exitStream, groupExists,
                   lastDelivered, pel, acked, main, loop, shuttingDown,
                   critical, delivered, spawned>>

\* Line 148, cmd.Start() hands the child dedupEnv(cmd.Env), of what the
\* slice holds as the child is made.
StartEnv(t) ==
    [envTask[t] EXCEPT
        !.pc = "done",
        !.childEnv =
            dedupEnv(IF envTask[t].cmdEnv.array = "ourEnv"
                     THEN SubSeq(ourEnv[envTask[t].w].array, 1,
                                 envTask[t].cmdEnv.len)
                     ELSE envTask[t].cmdEnv.own)]

\* A handleRequest without line 143: the child is started without a reader
\* hold on critical.
hrRLockSkipped(m) ==
    /\ Running(m)
    /\ task[m].pc = "rlock"
    /\ task' = [task EXCEPT ![m].pc = "start"]
    /\ UNCHANGED <<environ, ourEnv, envTask,
                   spawnStream, exitStream, groupExists, lastDelivered, pel,
                   acked, main, loop, shuttingDown, critical, delivered, spawned>>

\* Line 143: critical.RLock() blocks while a writer waits for or holds the lock.
hrRLock(m) ==
    /\ Running(m)
    /\ task[m].pc = "rlock"
    /\ ~critical[task[m].w].writer
    /\ critical' = [critical EXCEPT ![task[m].w].readers = @ + 1]
    /\ task' = [task EXCEPT ![m].pc = "start", ![m].gate = TRUE]
    /\ UNCHANGED <<environ, ourEnv, envTask,
                   spawnStream, exitStream, groupExists, lastDelivered, pel,
                   acked, main, loop, shuttingDown, delivered, spawned>>

\* A handleRequest that calls log.Fatal when cmd.Start fails.
hrStartFatal(m) ==
    /\ Running(m)
    /\ task[m].pc = "start"
    /\ LET w == task[m].w
       IN  /\ main' = [main EXCEPT ![w] = "fatal"]
           /\ shuttingDown' = [shuttingDown EXCEPT ![w] = FALSE]
           /\ critical' = [critical EXCEPT ![w] =
                  [readers |-> 0, writer |-> FALSE]]
           /\ task' = ProcessExit(w)
           /\ envTask' = ProcessExitEnv(w)
           /\ ourEnv' = [ourEnv EXCEPT ![w] = NoOurEnv]
    /\ UNCHANGED <<environ,
                   spawnStream, exitStream, groupExists, lastDelivered, pel,
                   acked, loop, delivered, spawned>>

\* Lines 148-159: cmd.Start(); on success the child has a pid, a new one or
\* one that is free again, and the environment of cmd.Env; the timer is
\* armed and the reaper started.
hrStart(m) ==
    /\ Running(m)
    /\ task[m].pc = "start"
    /\ \E started \in BOOLEAN, pid \in {Pid(m)} \cup FreePids :
        /\ ~started => pid = Pid(m)
        /\ task' = [task EXCEPT ![m] =
               IF started
               THEN [@ EXCEPT !.pc = "select", !.child = "running",
                              !.pid = pid, !.timer = "armed"]
               ELSE [@ EXCEPT !.pc = "sendFailure",
                              !.reason = "exec: not started"]]
        /\ spawned' = [spawned EXCEPT ![m] = IF started THEN @ + 1 ELSE @]
        /\ envTask' = [envTask EXCEPT ![m] =
               IF started THEN StartEnv(m) ELSE NoEnvTask]
    /\ UNCHANGED <<environ, ourEnv,
                   spawnStream, exitStream, groupExists, lastDelivered, pel,
                   acked, main, loop, shuttingDown, critical, delivered>>

(***************************************************************************)
(* The child, its reaper and the request's timer.                          *)
(***************************************************************************)
\* The child ends on its own and the wait4 of its reaper returns.  (It is a
\* session of its own and outlives the worker process; what becomes of it
\* then is not followed.)
ChildExit(m) ==
    /\ task[m].child = "running"
    /\ Alive(task[m].w)
    /\ \E ws \in NaturalStatuses, end \in ChildEnds :
           task' = [task EXCEPT ![m].child = end, ![m].status = ws]
    /\ UNCHANGED <<environ, ourEnv, envTask,
                   spawnStream, exitStream, groupExists, lastDelivered, pel,
                   acked, main, loop, shuttingDown, critical, delivered, spawned>>

\* The descendant that held the output pipe of the ended child ends or
\* closes it: the output is at EOF.
PipeEOF(m) ==
    /\ task[m].child = "held"
    /\ Alive(task[m].w)
    /\ task' = [task EXCEPT ![m].child = "waited"]
    /\ UNCHANGED <<environ, ourEnv, envTask,
                   spawnStream, exitStream, groupExists, lastDelivered, pel,
                   acked, main, loop, shuttingDown, critical, delivered, spawned>>

\* Line 155, go waitForCmd(cmd, waitErr): cmd.Wait() returns for the child
\* that has ended and whose output is at EOF, and its result is put into
\* the one-slot channel.
waitForCmd(m) ==
    /\ task[m].child = "waited"
    /\ Alive(task[m].w)
    /\ \E e \in WaitResults(task[m].status) :
           task' = [task EXCEPT ![m].child = "reaped", ![m].waitErr = e]
    /\ UNCHANGED <<environ, ourEnv, envTask,
                   spawnStream, exitStream, groupExists, lastDelivered, pel,
                   acked, main, loop, shuttingDown, critical, delivered, spawned>>

\* Line 151: the timer's duration has passed, timer.C holds a value.  The
\* timer is "unread" once the select that reads timerCh is left for good.
TimerFire(m) ==
    /\ task[m].timer = "armed"
    /\ Alive(task[m].w)
    /\ task' = [task EXCEPT ![m].timer = "fired",
                            ![m].expired = (task[m].child = "running")]
    /\ UNCHANGED <<environ, ourEnv, envTask,
                   spawnStream, exitStream, groupExists, lastDelivered, pel,
                   acked, main, loop, shuttingDown, critical, delivered, spawned>>

(***************************************************************************)
(* handleRequest, the select of lines 161-179 and what follows it.         *)
(***************************************************************************)
\* A timer branch without line 168: the child is killed, nothing is written
\* to its output.
hrSelectTimerNoNote(m) ==
    /\ Running(m)
    /\ task[m].pc = "select"
    /\ task[m].timer = "fired"
    /\ \E k \in KillOutcomes :
           task' = [Kill(m, "timeout", k) EXCEPT ![m].timer = "nil"]
    /\ UNCHANGED <<environ, ourEnv, envTask,
                   spawnStream, exitStream, groupExists, lastDelivered, pel,
                   acked, main, loop, shuttingDown, critical, delivered, spawned>>

\* A timer branch fed by a ticker: timerCh is not set to nil and holds a
\* value again after another period.
hrSelectTimerTicker(m) ==
    /\ Running(m)
    /\ task[m].pc = "select"
    /\ task[m].timer = "fired"
    /\ \E k \in KillOutcomes :
           task' = [Kill(m, "timeout", k) EXCEPT
                       ![m].out = Append(@, TimeoutNote),
                       ![m].timer = "armed"]
    /\ UNCHANGED <<environ, ourEnv, envTask,
                   spawnStream, exitStream, groupExists, lastDelivered, pel,
                   acked, main, loop, shuttingDown, critical, delivered, spawned>>

\* Lines 167-173: case <-timerCh
hrSelectTimer(m) ==
    /\ Running(m)
    /\ task[m].pc = "select"
    /\ task[m].timer = "fired"
    /\ \E k \in KillOutcomes :
           task' = [Kill(m, "timeout", k) EXCEPT
                       ![m].out = Append(@, TimeoutNote),
                       ![m].timer = "nil"]
    /\ UNCHANGED <<environ, ourEnv, envTask,
                   spawnStream, exitStream, groupExists, lastDelivered, pel,
                   acked, main, loop, shuttingDown, critical, delivered, spawned>>

\* A drain branch without line 176: the child is killed and the goroutine
\* returns at once, not waiting for the reaper.
hrSelectDrainNoWait(m) ==
    /\ Running(m)
    /\ task[m].pc = "select"
    /\ shuttingDown[task[m].w]
    /\ \E k \in KillOutcomes :
           task' = [Kill(m, "drain", k) EXCEPT ![m] = Return(@)]
    /\ critical' = RUnlock(task[m])
    /\ UNCHANGED <<environ, ourEnv, envTask,
                   spawnStream, exitStream, groupExists, lastDelivered, pel,
                   acked, main, loop, shuttingDown, delivered, spawned>>

\* Lines 174-175: case <-shuttingDown
hrSelectDrain(m) ==
    /\ Running(m)
    /\ task[m].pc = "select"
    /\ shuttingDown[task[m].w]
    /\ \E k \in KillOutcomes :
           task' = [Kill(m, "drain", k) EXCEPT
                       ![m].pc = "drain", ![m].timer = "unread",
                       ![m].expired = FALSE]
    /\ UNCHANGED <<environ, ourEnv, envTask,
                   spawnStream, exitStream, groupExists, lastDelivered, pel,
                   acked, main, loop, shuttingDown, critical, delivered, spawned>>

\* A drain branch that acknowledges the message it abandons.
hrDrainReturnAck(m) ==
    /\ Running(m)
    /\ task[m].pc = "drain"
    /\ task[m].waitErr # NoError
    /\ task' = [task EXCEPT ![m] = Return(@)]
    /\ critical' = RUnlock(task[m])
    /\ pel' = XAck(Redis, m).pel
    /\ acked' = XAck(Redis, m).acked
    /\ UNCHANGED <<environ, ourEnv, envTask,
                   spawnStream, exitStream, groupExists, lastDelivered,
                   main, loop, shuttingDown, delivered, spawned>>

\* A drain branch that goes on to line 181 after <-waitErr and publishes what
\* the reaper delivered.
hrDrainReturnPublish(m) ==
    /\ Running(m)
    /\ task[m].pc = "drain"
    /\ task[m].waitErr # NoError
    /\ LET t == task[m]
           resp == ExitResponse(m, rawId(spawnStream[m]), t.waitErr, t.out)
           r == sendResponse(m, resp, "ok")
       IN  /\ pel' = r.pel
           /\ acked' = r.acked
           /\ exitStream' = r.exit
           /\ task' = [task EXCEPT ![m] =
                  Return([@ EXCEPT !.underDrain = shuttingDown[t.w]])]
           /\ critical' = RUnlock(t)
    /\ UNCHANGED <<environ, ourEnv, envTask,
                   spawnStream, groupExists, lastDelivered,
                   main, loop, shuttingDown, delivered, spawned>>

\* Lines 176-177: <-waitErr, return
hrDrainReturn(m) ==
    /\ Running(m)
    /\ task[m].pc = "drain"
    /\ task[m].waitErr # NoError
    /\ task' = [task EXCEPT ![m] = Return(@)]
    /\ critical' = RUnlock(task[m])
    /\ UNCHANGED <<environ, ourEnv, envTask,
                   spawnStream, exitStream, groupExists, lastDelivered, pel,
                   acked, main, loop, shuttingDown, delivered, spawned>>

\* Lines 164-166, case errWt = <-waitErr, and lines 181-209 after the loop:
\* errWt and end are locals, the next thing another goroutine or the server
\* can see of this one is tx.Exec() in sendResponse, which is with the
\* server.
hrSelectWaitErr(m) ==
    /\ Running(m)
    /\ task[m].pc = "select"
    /\ task[m].waitErr # NoError
    /\ \E outcome \in TxOutcomes :
        LET t == task[m]
            resp == ExitResponse(m, rawId(spawnStream[m]), t.waitErr, t.out)
            r == sendResponse(m, resp, outcome)
        IN  /\ pel' = r.pel
            /\ acked' = r.acked
            /\ exitStream' = r.exit
            /\ task' = [task EXCEPT ![m] =
                   [AwaitReply(@, outcome) EXCEPT
                       !.underDrain = Applied(outcome) /\ shuttingDown[t.w]]]
    /\ UNCHANGED <<environ, ourEnv, envTask,
                   spawnStream, groupExists, lastDelivered,
                   main, loop, shuttingDown, critical, delivered, spawned>>

\* The steps of the workers, their children and timers.
Steps ==
    \/ \E w \in Workers : mainConfig(w)
    \/ \E w \in Workers : readLoopInit(w)
    \/ \E w \in Workers : readLoopRead(w)
    \/ \E w \in Workers : readLoopFatal(w)
    \/ \E w \in Workers : mainSignal(w)
    \/ \E w \in Workers : mainLock(w)
    \/ \E w \in Workers : mainReturn(w)
    \/ \E m \in Msgs : hrAck(m)
    \/ \E m \in Msgs : hrSendFailure(m)
    \/ \E m \in Msgs : hrOnce(m)
    \/ \E m \in Msgs : hrAppendEnv(m)
    \/ \E m \in Msgs : hrRLock(m)
    \/ \E m \in Msgs : hrStart(m)
    \/ \E m \in Msgs : ChildExit(m)
    \/ \E m \in Msgs : PipeEOF(m)
    \/ \E m \in Msgs : waitForCmd(m)
    \/ \E m \in Msgs : TimerFire(m)
    \/ \E m \in Msgs : hrSelectTimer(m)
    \/ \E m \in Msgs : hrSelectDrain(m)
    \/ \E m \in Msgs : hrDrainReturn(m)
    \/ \E m \in Msgs : hrSelectWaitErr(m)
    \/ \E m \in Msgs : hrReturn(m)

\* The fleet and its clients.
Next == ClientXAdd(MaxFleetMsgs) \/ Steps

Spec == Init /\ [][Next]_vars

(***************************************************************************)
(* Fairness.  The Go scheduler runs every runnable goroutine and Redis     *)
(* answers every call: each goroutine and each main takes its next step    *)
(* when it has one, and cmd.Wait() returns in the reaper once the child    *)
(* has ended and its output is at EOF.  Nothing is assumed of the clients, *)
(* the signals, the errors of the read, the timers, the children ending on *)
(* their own, the SIGKILL reaching them and the descendants that hold      *)
(* their output open.                                                      *)
(***************************************************************************)
TaskStep(m) ==
    \/ hrAck(m)
    \/ hrSendFailure(m)
    \/ hrOnce(m)
    \/ hrAppendEnv(m)
    \/ hrRLock(m)
    \/ hrStart(m)
    \/ hrSelectTimer(m)
    \/ hrSelectDrain(m)
    \/ hrDrainReturn(m)
    \/ hrSelectWaitErr(m)
    \/ hrReturn(m)

MainStep(w) == mainConfig(w) \/ mainLock(w) \/ mainReturn(w)

LoopStep(w) == readLoopInit(w) \/ readLoopRead(w)

Fairness ==
    /\ \A m \in Msgs : WF_vars(TaskStep(m)) /\ WF_vars(waitForCmd(m))
    /\ \A w \in Workers : WF_vars(MainStep(w)) /\ WF_vars(LoopStep(w))

FairSpec == Init /\ [][Next]_vars /\ Fairness

(***************************************************************************)
(* One worker with two requests in flight: the other member of the fleet   *)
(* has ended (main returned after a signal), having created the consumer   *)
(* group or not, before any request was appended.                          *)
(***************************************************************************)
LoneWorker == "w1"

PairInit ==
    /\ spawnStream = << >>
    /\ exitStream = << >>
    /\ groupExists \in BOOLEAN
    /\ lastDelivered = 0
    /\ pel = [m \in Msgs |-> NoConsumer]
    /\ acked = {}
    /\ main = [w \in Workers |-> IF w = LoneWorker THEN "config" ELSE "exited"]
    /\ loop = [w \in Workers |-> IF w = LoneWorker THEN "none" ELSE "exited"]
    /\ shuttingDown = [w \in Workers |-> FALSE]
    /\ critical = [w \in Workers |-> [readers |-> 0, writer |-> FALSE]]
    /\ task = [m \in Msgs |-> NoTask]
    /\ delivered = [m \in Msgs |-> 0]
    /\ spawned = [m \in Msgs |-> 0]
    /\ environ = [vars |-> WorkerVars, cap |-> Len(WorkerVars)]
    /\ ourEnv = [w \in Workers |-> NoOurEnv]
    /\ envTask = [t \in EnvTasks |-> NoEnvTask]

PairNext == ClientXAdd(MaxMsgs) \/ Steps

PairSpec == PairInit /\ [][PairNext]_vars

(***************************************************************************)
(* Vocabulary of the properties.                                           *)
(***************************************************************************)
Entries == 1..Len(spawnStream)
HasStringId(m) == IsString(spawnStream[m].id)
\* the entries of icinga2:process:exit that answer entry m
ResponsesFor(m) ==
    {i \in 1..Len(exitStream) : exitStream[i].id = rawId(spawnStream[m])}
\* the entry a response echoes the id of
EntryOf(resp) == CHOOSE m \in Entries : rawId(spawnStream[m]) = resp.id
Returned(m) == task[m].pc = "done"
Drained(m) == \E i \in 1..Len(task[m].kills) : task[m].kills[i].why = "drain"
TimedOut(m) ==
    \E i \in 1..Len(task[m].kills) : task[m].kills[i].why = "timeout"
HasNote(output, note) == \E i \in 1..Len(output) : output[i] = note
\* the SIGKILL of the timer branch ended the child
TimeoutKilled(m) ==
    \E i \in 1..Len(task[m].kills) :
        task[m].kills[i].why = "timeout" /\ task[m].kills[i].ended
SomeoneReads == \E w \in Workers : Alive(w) /\ loop[w] = "reading"
\* The conditions of lines 91-130, as the interface states them.
ValidRequest(values) ==
    /\ IsString(values.command)
    /\ jsonUnmarshal(values.command.val).err = ""
    /\ Len(jsonUnmarshal(values.command.val).val) >= 1
    /\ IsString(values.env)
    /\ jsonUnmarshal(values.env.val).err = ""
    /\ IsString(values.timeout)
    /\ ParseFloat(values.timeout.val).err = ""
IsFailureResponse(resp) ==
    resp.pid = NoPid /\ resp.code = 128 /\ resp.exec_start = resp.exec_end

(***************************************************************************)
(* C1, as claimed: a message with a string id is acknowledged in the       *)
(* consumer group if and only if a response with its id is on the response *)
(* stream: the XADD and the XACK of sendResponse take effect together or   *)
(* not at all.                                                             *)
(***************************************************************************)
C1_AckIffResponse ==
    \A m \in Entries :
        HasStringId(m) => ((m \in acked) <=> (ResponsesFor(m) # {}))

(***************************************************************************)
(* C2, as claimed: a returned task for a message with a string id has      *)
(* either left exactly one response and the ack, or it was drained and     *)
(* left neither.                                                           *)
(***************************************************************************)
C2_TwoOutcomes ==
    \A m \in Entries :
        (HasStringId(m) /\ Returned(m)) =>
            \/ Cardinality(ResponsesFor(m)) = 1 /\ m \in acked
            \/ Drained(m) /\ ResponsesFor(m) = {} /\ m \notin acked

(***************************************************************************)
(* C2, amended: there is never more than one response for a message, and  *)
(* a message with a response is acknowledged; a returned task has left     *)
(* exactly one response and the ack, or no response, and no response only  *)
(* after the drain branch (then no ack either) or a tx.Exec() that         *)
(* returned an error; a task cut off by the end of its process has left a  *)
(* response only if its tx.Exec() was with the server already.             *)
(***************************************************************************)
C2_Outcomes ==
    \A m \in Entries :
        (HasStringId(m) /\ task[m].pc # "none") =>
            /\ Cardinality(ResponsesFor(m)) <= 1
            /\ ResponsesFor(m) # {} => m \in acked
            /\ Returned(m) =>
                \/ Cardinality(ResponsesFor(m)) = 1
                \/ Drained(m) /\ m \notin acked
                \/ task[m].redisErr
            /\ (ResponsesFor(m) # {} \/ m \in acked) =>
                task[m].pc \in {"reply", "done", "killed"}

C2_Witness ==
    \E m \in Entries :
        /\ HasStringId(m)
        /\ Returned(m)
        /\ task[m].child = "reaped"
        /\ task[m].redisErr
        /\ ~Drained(m)
        /\ ResponsesFor(m) = {}
        /\ m \notin acked

(***************************************************************************)
(* C3, as claimed: once a worker process has ended, every child it spawned *)
(* is reaped, and either ended on its own with its result published or was *)
(* sent SIGKILL.                                                           *)
(***************************************************************************)
C3_NoChildLeft ==
    \A m \in Entries :
        (task[m].pc # "none" /\ ~Alive(task[m].w) /\ task[m].child # "none") =>
            /\ task[m].child = "reaped"
            /\ ResponsesFor(m) # {} \/ task[m].kills # << >>

(***************************************************************************)
(* C3, amended: once main has returned (the signal came and                *)
(* critical.Lock() returned), every child the worker spawned is reaped.    *)
(***************************************************************************)
C3_ReapedAtExit ==
    \A m \in Entries :
        (task[m].pc # "none" /\ main[task[m].w] = "exited") =>
            task[m].child \in {"none", "reaped"}

C3_Witness ==
    \E m \in Entries :
        /\ task[m].pc = "done"
        /\ main[task[m].w] = "exited"
        /\ task[m].child = "reaped"
        /\ task[m].kills =
               <<[why |-> "drain", child |-> "running", ended |-> TRUE]>>

(***************************************************************************)
(* C4, as claimed: a message abandoned under drain and left pending is     *)
(* delivered again, as long as some worker runs the read loop.             *)
(***************************************************************************)
Abandoned(m) == Returned(m) /\ Drained(m) /\ pel[m] # NoConsumer

C4_Redelivered ==
    \A m \in Msgs :
        (Abandoned(m) /\ SomeoneReads) ~> (delivered[m] > 1 \/ ~SomeoneReads)

(***************************************************************************)
(* C5, as claimed: a response has pid -1 exactly if no child was started   *)
(* for its request, then its code is 128; any other pid is the child's.    *)
(***************************************************************************)
C5_PidMinusOne ==
    \A i \in 1..Len(exitStream) :
        LET resp == exitStream[i]
            m == EntryOf(resp)
        IN  /\ (resp.pid = NoPid) <=> (spawned[m] = 0)
            /\ resp.pid = NoPid => resp.code = 128
            /\ resp.pid # NoPid => resp.pid = task[m].pid

(***************************************************************************)
(* C6, as claimed: when the timer's duration passed while the child still  *)
(* ran, the response published for the request has code 137 and contains   *)
(* the timeout note.                                                       *)
(***************************************************************************)
C6_ExpiredMeansKilled ==
    [][\A m \in Msgs :
          (/\ task[m].expired
           /\ Len(exitStream') = Len(exitStream) + 1
           /\ exitStream'[Len(exitStream')].id = RequestId(m)) =>
              /\ exitStream'[Len(exitStream')].code = 128 + SIGKILL
              /\ HasNote(exitStream'[Len(exitStream')].output, TimeoutNote)]_vars

(***************************************************************************)
(* C6, amended: when the timer branch of the select was taken, every       *)
(* response published for the request contains the timeout note, and its   *)
(* code is 137 when the SIGKILL of that branch ended the child; it did not *)
(* if the child had ended before or the signal was refused, and the code   *)
(* is then the one of the end the reaper reports.                          *)
(***************************************************************************)
C6_TimerBranchTaken ==
    \A i \in 1..Len(exitStream) :
        LET resp == exitStream[i]
            m == EntryOf(resp)
        IN  TimedOut(m) =>
                /\ HasNote(resp.output, TimeoutNote)
                /\ TimeoutKilled(m) => resp.code = 128 + SIGKILL

C6_Witness ==
    \E i \in 1..Len(exitStream) :
        /\ TimeoutKilled(EntryOf(exitStream[i]))
        /\ exitStream[i].code = 128 + SIGKILL
        /\ HasNote(exitStream[i].output, TimeoutNote)

\* The timer branch was taken for a child that ran, the SIGKILL was refused
\* and the child ended on its own later: the note, and the child's own code.
C6_RefusedKill ==
    \E i \in 1..Len(exitStream) :
        LET m == EntryOf(exitStream[i])
        IN  /\ task[m].kills =
                   <<[why |-> "timeout", child |-> "running", ended |-> FALSE]>>
            /\ exitStream[i].code = 3
            /\ HasNote(exitStream[i].output, TimeoutNote)

(***************************************************************************)
(* C7, as claimed: after the signal was received the worker process ends,  *)
(* the goroutines, the reapers and the Redis calls scheduled fairly.       *)
(***************************************************************************)
C7_SignalEndsWorker ==
    \A w \in Workers : (main[w] \in {"closed", "locking"}) ~> ~Alive(w)

\* The states the worker does not leave: the signal came, main waits in
\* critical.Lock() for a task that took the drain branch and waits in line
\* 176 for the reaper of a child that the SIGKILL did not end or whose
\* output a descendant holds open.
C7_DrainStuck ==
    \E m \in Entries :
        /\ task[m].pc = "drain"
        /\ main[task[m].w] = "locking"
        /\ task[m].child \in {"running", "held"}

(***************************************************************************)
(* C8.  No message is handed to more than one handleRequest in the whole   *)
(* fleet, and no more than one child is spawned for it.                    *)
(***************************************************************************)
C8_OneTaskPerMessage ==
    \A m \in Msgs : delivered[m] <= 1 /\ spawned[m] <= 1

C8_Witness ==
    \E m \in Entries :
        /\ Abandoned(m)
        /\ spawned[m] = 1
        /\ \E w \in Workers :
               w # task[m].w /\ Alive(w) /\ loop[w] = "reading"

(***************************************************************************)
(* C9, as claimed: a message without a string id is acknowledged once its  *)
(* task has returned, nothing is published for it and no child is spawned. *)
(***************************************************************************)
C9_NoIdAcked ==
    \A m \in Entries :
        (~HasStringId(m) /\ Returned(m)) =>
            m \in acked /\ ResponsesFor(m) = {} /\ spawned[m] = 0

(***************************************************************************)
(* C9, amended: for a message without a string id nothing is published     *)
(* and no child is spawned; its task sends one XACK of its own, and the    *)
(* message is acknowledged once the task has returned unless that XACK     *)
(* returned an error.                                                      *)
(***************************************************************************)
C9_NoIdAckOnly ==
    \A m \in Entries :
        ~HasStringId(m) =>
            /\ ResponsesFor(m) = {}
            /\ spawned[m] = 0
            /\ task[m].child = "none"
            /\ m \in acked => task[m].pc \in {"reply", "done", "killed"}
            /\ (Returned(m) /\ ~task[m].redisErr) => m \in acked

C9_Witness ==
    \E m \in Entries : ~HasStringId(m) /\ Returned(m) /\ m \in acked

(***************************************************************************)
(* C10, as claimed: for a message with a string id a child is spawned only *)
(* if command, env and timeout are valid; otherwise the returned task has  *)
(* published exactly one failure response (pid -1, code 128, exec_start =  *)
(* exec_end) and the message is acknowledged.                              *)
(***************************************************************************)
C10_RejectPublished ==
    \A m \in Entries :
        HasStringId(m) =>
            /\ spawned[m] > 0 => ValidRequest(spawnStream[m])
            /\ (~ValidRequest(spawnStream[m]) /\ Returned(m)) =>
                /\ Cardinality(ResponsesFor(m)) = 1
                /\ \A i \in ResponsesFor(m) : IsFailureResponse(exitStream[i])
                /\ m \in acked

(***************************************************************************)
(* C10, amended: a child is spawned only if command, env and timeout are   *)
(* valid; otherwise the task issues one transaction with a failure         *)
(* response (pid -1, code 128, exec_start = exec_end) and the XACK: no     *)
(* other response is ever published for the message, and once the task has *)
(* returned exactly that response is published and the message is          *)
(* acknowledged unless tx.Exec() returned an error.                        *)
(***************************************************************************)
C10_RejectTransaction ==
    \A m \in Entries :
        HasStringId(m) =>
            /\ spawned[m] > 0 => ValidRequest(spawnStream[m])
            /\ ~ValidRequest(spawnStream[m]) =>
                /\ task[m].child = "none"
                /\ Cardinality(ResponsesFor(m)) <= 1
                /\ \A i \in ResponsesFor(m) : IsFailureResponse(exitStream[i])
                /\ (Returned(m) /\ ~task[m].redisErr) =>
                       Cardinality(ResponsesFor(m)) = 1 /\ m \in acked

C10_Witness ==
    \E m \in Entries :
        /\ HasStringId(m)
        /\ ~ValidRequest(spawnStream[m])
        /\ Returned(m)
        /\ Cardinality(ResponsesFor(m)) = 1
        /\ m \in acked

(***************************************************************************)
(* The classification of lines 183-209 on its own: a task stands at the    *)
(* select with the reaper's delivery in waitErr, for every kind of error   *)
(* and wait status the classification tells apart, and takes the branch of *)
(* line 164.                                                               *)
(***************************************************************************)
ClassifiedStatuses ==
    {Exited(0), Exited(1), Exited(255), Signaled(SIGKILL), Signaled(SIGTERM),
     Stopped(SIGSTOP), Continued, UnknownStatus}
ClassifiedErrors ==
    {NilError, OtherError(Exited(0))}
        \cup {ExitError(ws) : ws \in ClassifiedStatuses}
ChildOutputs ==
    {<< >>, <<"hello">>, <<"hello", "world">>, <<"hello", TimeoutNote>>}

ClassifyInit ==
    /\ spawnStream = <<CHOOSE v \in Payloads(1) : ParseRequest(v).kind = "ok">>
    /\ exitStream = << >>
    /\ groupExists = TRUE
    /\ lastDelivered = 1
    /\ acked = {}
    /\ main = [w \in Workers |-> "waiting"]
    /\ loop = [w \in Workers |-> "reading"]
    /\ shuttingDown = [w \in Workers |-> FALSE]
    /\ delivered = [m \in Msgs |-> IF m = 1 THEN 1 ELSE 0]
    /\ spawned = [m \in Msgs |-> IF m = 1 THEN 1 ELSE 0]
    /\ environ = [vars |-> WorkerVars, cap |-> Len(WorkerVars)]
    /\ \E w \in Workers, e \in ClassifiedErrors, o \in ChildOutputs :
        /\ ourEnv = [v \in Workers |->
               IF v = w
               THEN [once |-> TRUE, writes |-> 1, len |-> Len(WorkerVars),
                     cap |-> Len(WorkerVars), array |-> WorkerVars]
               ELSE NoOurEnv]
        /\ envTask = [t \in EnvTasks |->
               IF t = 1
               THEN [pc |-> "done", w |-> w, env |-> <<RequestEntry(1)>>,
                     cmdEnv |-> [array |-> "own", len |-> Len(WorkerVars) + 1,
                                 own |-> WorkerVars \o <<RequestEntry(1)>>],
                     childEnv |-> dedupEnv(WorkerVars \o <<RequestEntry(1)>>)]
               ELSE NoEnvTask]
        /\ pel = [m \in Msgs |-> IF m = 1 THEN w ELSE NoConsumer]
        /\ critical = [v \in Workers |->
               [readers |-> IF v = w THEN 1 ELSE 0, writer |-> FALSE]]
        /\ task = [m \in Msgs |->
               IF m = 1
               THEN [NoTask EXCEPT !.w = w, !.pc = "select", !.gate = TRUE,
                                   !.child = "reaped", !.pid = Pid(1),
                                   !.status = e.ws,
                                   !.waitErr = e, !.timer = "armed", !.out = o]
               ELSE NoTask]

ClassifyNext ==
    \/ \E m \in Msgs : hrSelectWaitErr(m)
    \/ \E m \in Msgs : hrReturn(m)

ClassifySpec == ClassifyInit /\ [][ClassifyNext]_vars

\* The code the wait status stands for.
ClaimedCode(errWt) ==
    IF errWt.kind = "nil" THEN 0
    ELSE IF errWt.kind = "exit" /\ errWt.ws.how = "exited" THEN errWt.ws.n
    ELSE IF errWt.kind = "exit" /\ errWt.ws.how \in {"signaled", "stopped"}
        THEN 128 + errWt.ws.n
    ELSE IF errWt.kind = "exit" /\ errWt.ws.how = "continued"
        THEN 128 + SIGCONT
    ELSE 128

\* The signal the annotation names, 0 if there is none to append.
ClaimedSignal(errWt) ==
    IF errWt.kind = "exit" /\ errWt.ws.how \in {"signaled", "stopped"}
        THEN errWt.ws.n
    ELSE IF errWt.kind = "exit" /\ errWt.ws.how = "continued" THEN SIGCONT
    ELSE 0

EndsWith(output, note) ==
    /\ Len(output) >= Len(note)
    /\ SubSeq(output, Len(output) - Len(note) + 1, Len(output)) = note

(***************************************************************************)
(* C11.  The code of a published response is the one the reaper's delivery *)
(* stands for: nil 0, exit code c, 128 + s for a signal or a stop,         *)
(* 128 + SIGCONT for a continue, 128 for anything else; for a signal, a    *)
(* stop and a continue the output is the child's bytes followed by the     *)
(* "Terminated by signal" annotation.                                      *)
(***************************************************************************)
C11_CodeOfStatus ==
    [][\A m \in Msgs :
          (/\ task[m].pc = "select"
           /\ task[m].waitErr # NoError
           /\ Len(exitStream') = Len(exitStream) + 1
           /\ exitStream'[Len(exitStream')].id = RequestId(m)) =>
              LET resp == exitStream'[Len(exitStream')]
                  errWt == task[m].waitErr
              IN  /\ resp.code = ClaimedCode(errWt)
                  /\ ClaimedSignal(errWt) # 0 =>
                      /\ EndsWith(resp.output,
                                  SignalNote(ClaimedSignal(errWt)))
                      /\ resp.output =
                             task[m].out \o SignalNote(ClaimedSignal(errWt))]_vars

C11_Witness ==
    \E i \in 1..Len(exitStream) :
        /\ exitStream[i].code = 128 + SIGSTOP
        /\ exitStream[i].pid = Pid(EntryOf(exitStream[i]))
        /\ EndsWith(exitStream[i].output, SignalNote(SIGSTOP))
        /\ Len(exitStream[i].output) > Len(SignalNote(SIGSTOP))

(***************************************************************************)
(* C12.  A task that took the drain branch has sent SIGKILL to the process *)
(* group of its child, whatever became of the signal; it returns only      *)
(* after the reaper delivered; there is no response for its message, the   *)
(* message is not acknowledged and stays in the pending list of the task's *)
(* worker.                                                                 *)
(***************************************************************************)
C12_DrainAbandons ==
    \A m \in Entries :
        /\ task[m].pc = "drain" =>
            /\ Drained(m)
            /\ task[m].kills[Len(task[m].kills)].why = "drain"
            /\ task[m].child # "none"
        /\ Drained(m) =>
            /\ ResponsesFor(m) = {}
            /\ m \notin acked
            /\ pel[m] = task[m].w
            /\ Returned(m) => task[m].child = "reaped"

\* The SIGKILL of the drain branch was refused; the task waited in line 176
\* until the child had ended on its own and returned, its message pending.
C12_Witness ==
    \E m \in Entries :
        /\ Returned(m)
        /\ task[m].kills =
               <<[why |-> "drain", child |-> "running", ended |-> FALSE]>>
        /\ task[m].child = "reaped"
        /\ pel[m] = task[m].w
        /\ ResponsesFor(m) = {}

(***************************************************************************)
(* C13, as claimed: no task publishes a response once shuttingDown of its  *)
(* worker is closed.                                                       *)
(***************************************************************************)
C13_SilentUnderDrain ==
    \A m \in Entries : ~task[m].underDrain

(***************************************************************************)
(* C13, amended: a task that is in the drain branch has seen shuttingDown  *)
(* closed, and what is published once shuttingDown is closed is never the  *)
(* response of a task that took the drain branch: it is the response of a  *)
(* task that had no child or whose child the reaper had delivered to the   *)
(* select, published together with the ack.                                *)
(***************************************************************************)
C13_PublishedUnderDrain ==
    \A m \in Entries :
        /\ task[m].pc = "drain" => shuttingDown[task[m].w]
        /\ task[m].underDrain =>
            /\ task[m].pc \in {"reply", "done"}
            /\ ~Drained(m)
            /\ task[m].child \in {"none", "reaped"}
            /\ Cardinality(ResponsesFor(m)) = 1
            /\ m \in acked

C13_Witness ==
    \E m \in Entries :
        /\ task[m].underDrain
        /\ task[m].child = "reaped"
        /\ task[m].kills = << >>
        /\ ResponsesFor(m) # {}

(***************************************************************************)
(* C14, as claimed: within one request a kill comes before the reaper's    *)
(* delivery, the delivery before the publication, and the ack not before   *)
(* the response.                                                           *)
(***************************************************************************)
C14_FixedOrder ==
    \A m \in Entries :
        /\ \A i \in 1..Len(task[m].kills) :
               task[m].kills[i].child \in {"running"} \cup ChildEnds
        /\ (ResponsesFor(m) # {} /\ spawned[m] > 0) => task[m].child = "reaped"
        /\ (HasStringId(m) /\ m \in acked) => ResponsesFor(m) # {}

(***************************************************************************)
(* C19, as claimed: no SIGKILL is sent to the process group of a child     *)
(* whose termination the reaper has collected already.                     *)
(***************************************************************************)
C19_NoKillAfterReap ==
    \A m \in Msgs :
        ~\E i \in 1..Len(task[m].kills) : task[m].kills[i].child = "reaped"

Occurrences(seq, x) == Cardinality({i \in 1..Len(seq) : seq[i] = x})
TimeoutKills(m) ==
    {i \in 1..Len(task[m].kills) : task[m].kills[i].why = "timeout"}

(***************************************************************************)
(* C15.  Within one request the timer branch is taken at most once: at     *)
(* most one timeout SIGKILL is sent, the timeout note is at most once in   *)
(* the output buffer and in a published output; after the branch the task  *)
(* stays in the select, timerCh nil, until the reaper delivers or          *)
(* shuttingDown is closed.                                                 *)
(***************************************************************************)
C15_TimerBranchOnce ==
    /\ \A m \in Entries :
        /\ Cardinality(TimeoutKills(m)) <= 1
        /\ Occurrences(task[m].out, TimeoutNote) <= 1
        /\ task[m].timer = "nil" =>
            /\ task[m].pc = "select"
            /\ TimedOut(m)
            /\ Occurrences(task[m].out, TimeoutNote) = 1
    /\ \A i \in 1..Len(exitStream) :
        Occurrences(exitStream[i].output, TimeoutNote) <= 1

C15_Witness ==
    \E m \in Entries :
        /\ task[m].timer = "nil"
        /\ task[m].pc = "select"
        /\ task[m].child = "waited"
        /\ Cardinality(TimeoutKills(m)) = 1

(***************************************************************************)
(* C16, as claimed: a SIGKILL is sent for a request only in a step that    *)
(* finds the request's timer fired or shuttingDown of the worker closed,   *)
(* and a running child is ended by a SIGKILL only in a step that finds its *)
(* own request's timer fired or shuttingDown of its worker closed.         *)
(***************************************************************************)
C16_KillOnlyOnTimeoutOrDrain ==
    [][\A m \in Msgs :
          /\ Len(task'[m].kills) > Len(task[m].kills) =>
              \/ task[m].timer = "fired"
              \/ shuttingDown[task[m].w]
          /\ (/\ task[m].child = "running"
              /\ task'[m].status = Signaled(SIGKILL)) =>
              \/ task[m].timer = "fired"
              \/ shuttingDown[task[m].w]]_vars

\* The child of one request, its timer armed and no signal received, ended
\* by the SIGKILL the timer branch of another request sent to the pid of its
\* own child: that child had ended and been collected, a descendant holds its
\* output open, and the OS had given its pid away again.
C16_StrayKill ==
    \E m \in Entries, o \in Entries :
        /\ m # o
        /\ task[m].pid = task[o].pid
        /\ task[m].kills =
               <<[why |-> "timeout", child |-> "held", ended |-> FALSE]>>
        /\ task[o].kills = << >>
        /\ task[o].status = Signaled(SIGKILL)
        /\ task[o].timer = "armed"
        /\ ~shuttingDown[task[o].w]

\* The same with the SIGKILL sent after cmd.Wait() had returned, the select
\* having taken the timer branch with waitErr ready.
C16_StrayKillAfterReap ==
    \E m \in Entries, o \in Entries :
        /\ m # o
        /\ task[m].pid = task[o].pid
        /\ task[m].kills =
               <<[why |-> "timeout", child |-> "reaped", ended |-> FALSE]>>
        /\ task[o].kills = << >>
        /\ task[o].status = Signaled(SIGKILL)
        /\ task[o].timer = "armed"
        /\ ~shuttingDown[task[o].w]

\* What has become of request o: its task and child, its place in the
\* consumer group and what is published for it.
OutcomeOf(o) ==
    [task |-> task[o], pending |-> pel[o], acked |-> o \in acked,
     delivered |-> delivered[o], spawned |-> spawned[o],
     responses |-> SelectSeq(exitStream,
                             LAMBDA r : r.id = rawId(spawnStream[o]))]

\* A step in which request m fails: cmd.Start() returns an error, the
\* failure response of a rejected or not started request goes to the server,
\* or a call to the server returns an error.
RequestFails(m) ==
    \/ task[m].pc = "start" /\ task'[m].pc = "sendFailure"
    \/ task[m].pc = "sendFailure" /\ task'[m].pc = "reply"
    \/ ~task[m].redisErr /\ task'[m].redisErr

(***************************************************************************)
(* C18, as claimed: a worker process whose readLoop was started and that   *)
(* ended by log.Fatal ended in readLoop, at one of its three calls of      *)
(* log.Fatal: no UUID, no consumer group (an error other than BUSYGROUP),  *)
(* or an error of the read.  The message of a task whose publish           *)
(* transaction returned an error has no response and is still pending.     *)
(***************************************************************************)
C18_FailedPublishPending ==
    /\ \A w \in Workers :
        loop[w] # "none" => ((main[w] = "fatal") <=> (loop[w] = "fatal"))
    /\ \A m \in Entries :
        (HasStringId(m) /\ task[m].redisErr) =>
            /\ ResponsesFor(m) = {}
            /\ m \notin acked
            /\ pel[m] = task[m].w

(***************************************************************************)
(* C18, amended: a worker process that ended by log.Fatal ended in main    *)
(* before readLoop was started (lines 27, 33, 39: the configuration, the   *)
(* logging) or in readLoop, at one of its three calls of log.Fatal.  A     *)
(* step in which a request is rejected, its child is not started or a call *)
(* of its task to the server returns an error leaves the worker running    *)
(* and every other request as it was: its task and child, its place in the *)
(* pending list, its ack and its responses.  A task whose publish          *)
(* transaction returned an error goes on to its return and sends nothing   *)
(* again: there is at most one response for its message, and the message   *)
(* is pending with its worker and without response unless the server had   *)
(* executed the XACK of the transaction.                                   *)
(***************************************************************************)
C18_FatalOnlyInReadLoop ==
    /\ [](/\ \A w \in Workers :
              /\ main[w] = "fatal" => loop[w] \in {"none", "fatal"}
              /\ loop[w] = "fatal" => main[w] = "fatal"
              /\ loop[w] = "none" => main[w] \in {"config", "fatal", "exited"}
          /\ \A m \in Entries :
              (HasStringId(m) /\ task[m].redisErr) =>
                  /\ task[m].pc \in {"reply", "done", "killed"}
                  /\ Cardinality(ResponsesFor(m)) <= 1
                  /\ m \notin acked =>
                         ResponsesFor(m) = {} /\ pel[m] = task[m].w)
    /\ [][\A m \in Msgs :
              RequestFails(m) =>
                  /\ main' = main
                  /\ loop' = loop
                  /\ shuttingDown' = shuttingDown
                  /\ critical' = critical
                  /\ \A o \in Entries \ {m} : OutcomeOf(o)' = OutcomeOf(o)]_vars

\* The worker is in its read loop, no signal received; for one request
\* cmd.Start() failed, the publish of the failure response returned an error
\* and the task has returned; the child of the other request runs on.
C18_Witness ==
    \E m \in Entries, o \in Entries :
        /\ m # o
        /\ HasStringId(m)
        /\ ValidRequest(spawnStream[m])
        /\ Returned(m)
        /\ task[m].redisErr
        /\ spawned[m] = 0
        /\ loop[task[m].w] = "reading"
        /\ main[task[m].w] = "waiting"
        /\ task[o].w = task[m].w
        /\ task[o].pc = "select"
        /\ task[o].child = "running"

(***************************************************************************)
(* C20.  A task holds critical as a reader from before cmd.Start until it  *)
(* returns, its publish transaction answered: the readers of critical are  *)
(* the tasks between line 143 and their return, and when main has returned *)
(* after the signal every request with a child has a task that returned,   *)
(* none was cut off between the reaper's delivery and the end of its       *)
(* publish transaction.                                                    *)
(***************************************************************************)
C20_GateHeldUntilPublished ==
    /\ \A w \in Workers :
        critical[w].readers =
            Cardinality({m \in Msgs : task[m].w = w /\ task[m].gate})
    /\ \A m \in Entries :
        /\ task[m].pc \in {"start", "select", "drain"} => task[m].gate
        /\ (/\ task[m].pc \in {"sendFailure", "reply"}
            /\ HasStringId(m)
            /\ ValidRequest(spawnStream[m])) => task[m].gate
        /\ task[m].gate => main[task[m].w] \in {"waiting", "closed", "locking"}
        /\ (task[m].pc # "none" /\ main[task[m].w] = "exited") =>
            /\ task[m].child # "none" => Returned(m)
            /\ task[m].pc = "killed" => spawned[m] = 0

C20_Witness ==
    \E m \in Entries :
        /\ task[m].pc = "reply"
        /\ task[m].child = "reaped"
        /\ ResponsesFor(m) # {}
        /\ task[m].gate
        /\ main[task[m].w] = "locking"
        /\ critical[task[m].w].writer

(***************************************************************************)
(* Lines 132-148 on their own: a worker in its read loop has started       *)
(* goroutines for concurrent requests, each with its env, which pass the   *)
(* once, the append and cmd.Start.  envTask[t].pc:                         *)
(*   once    line 132, before m.ourEnv.once.Do(m.initEnv)                  *)
(*   append  line 138, before cmd.Env = append(m.ourEnv.vars, env...)      *)
(*   start   line 148, before cmd.Start() reads cmd.Env                    *)
(***************************************************************************)
EnvInit ==
    /\ spawnStream = << >>
    /\ exitStream = << >>
    /\ groupExists = TRUE
    /\ lastDelivered = 0
    /\ pel = [m \in Msgs |-> NoConsumer]
    /\ acked = {}
    /\ main = [w \in Workers |-> "waiting"]
    /\ shuttingDown = [w \in Workers |-> FALSE]
    /\ critical = [w \in Workers |-> [readers |-> 0, writer |-> FALSE]]
    /\ task = [m \in Msgs |-> NoTask]
    /\ delivered = [m \in Msgs |-> 0]
    /\ spawned = [m \in Msgs |-> 0]
    /\ environ \in Environs
    /\ ourEnv = [w \in Workers |-> NoOurEnv]
    /\ \E w \in Workers :
       \E envs \in [EnvTasks -> UNION {RequestEnvs(t) : t \in EnvTasks}] :
        /\ \A t \in EnvTasks : envs[t] \in RequestEnvs(t)
        /\ loop = [v \in Workers |-> IF v = w THEN "reading" ELSE "init"]
        /\ envTask = [t \in EnvTasks |->
               [NoEnvTask EXCEPT !.pc = "once", !.w = w, !.env = envs[t]]]

\* Line 148 for a request of which only lines 132-148 are followed.
hrStartEnv(t) ==
    /\ envTask[t].pc = "start"
    /\ Alive(envTask[t].w)
    /\ envTask' = [envTask EXCEPT ![t] = StartEnv(t)]
    /\ UNCHANGED <<environ, ourEnv>>
    /\ UNCHANGED dispatchVars

EnvNext ==
    \/ \E t \in EnvTasks : hrOnce(t)
    \/ \E t \in EnvTasks : hrAppendEnv(t)
    \/ \E t \in EnvTasks : hrStartEnv(t)

EnvSpec == EnvInit /\ [][EnvNext]_vars

(***************************************************************************)
(* C17, as claimed: m.ourEnv.vars is assigned once and its elements stay   *)
(* the worker's environment; the environment handed to the child of a      *)
(* request is the one of the worker's environment followed by the env of   *)
(* that request, the request's entry standing for a variable both give     *)
(* (what cmd.Start makes of that list), and holds no entry of another      *)
(* request.                                                                *)
(***************************************************************************)
C17_EnvPerRequest ==
    /\ \A w \in Workers :
        /\ ourEnv[w].writes <= 1
        /\ ourEnv[w].once =>
               SubSeq(ourEnv[w].array, 1, ourEnv[w].len) = environ.vars
    /\ \A t \in EnvTasks :
        envTask[t].pc = "done" =>
            envTask[t].childEnv = dedupEnv(environ.vars \o envTask[t].env)

\* A request that sets a variable the worker has: the child is handed one
\* entry for it, the request's.
EnvCollisionResolved ==
    \E t \in EnvTasks :
        /\ envTask[t].pc = "done"
        /\ envTask[t].env = <<"PATH=/opt">>
        /\ envTask[t].childEnv = <<"PATH=/opt">>

====
